---------------------------- MODULE Spec2Model ----------------------------
(***************************************************************************)
(* Landing-gear shock-absorber calculations (functions_SA_analysis.py and  *)
(* functions_SA_sizing.py) as state machines.                              *)
(*                                                                         *)
(* Numbers.  The Python code computes in binary floating point.  Here      *)
(* every quantity is a fixed-point integer in a stated unit, and every     *)
(* product/quotient is the exact rational result rounded half-up to that   *)
(* unit (MulDivR).  Units:                                                 *)
(*   lengths x_t, x_a, x_total ........ 1e-8 m   (XU units per metre)      *)
(*   reaction factor lambda ........... 1e-8     (LU units per 1.0)        *)
(*   speed V .......................... 1e-7 m/s (VU units per m/s)        *)
(*   tyre radii in inches ............. 0.01 in ; in metres: 1e-6 m        *)
(*   forces, load ratings ............. 0.01 N                             *)
(*   masses ........................... kg                                 *)
(***************************************************************************)
EXTENDS Integers, Sequences, FiniteSets, TLC

VARIABLES
    pc,          \* control location of the routine that is running
    caller,      \* who called lambda_xt_iter: "none", "wrapper", "pair", "roundtrip"
    args,        \* arguments of the running lambda_xt_iter call
    x_t,         \* lambda_xt_iter local x_t
    lambda_val,  \* lambda_xt_iter local lambda_val
    x_t_new,     \* lambda_xt_iter local x_t_new
    iter,        \* number of loop bodies of lambda_xt_iter started so far
    ret,         \* value returned by lambda_xt_iter: <<lambda_val, x_t>>, or <<>>
    err,         \* exception that ended the run, or "none"
    pending,     \* independent calls: argument records still to be run
    rets,        \* independent calls: what the finished calls returned
    job,         \* compute_full_stroke_from_reaction_factor: its arguments
    strokes,     \* compute_full_stroke_from_reaction_factor: <<x_t, x_a, x_total>>, or <<>>
    crf,         \* compute_reaction_factors_for_aircraft: arguments and aircraft row
    srf,         \* solve_reaction_factor: arguments and locals
    results,     \* solve_reaction_factor: the list results
    main_results,\* compute_reaction_factors_for_aircraft: main_results
    table,       \* compute_reaction_factors_for_aircraft: the returned rows, or <<>>
    seal_db,     \* oleo_pneumatic_sizing: column "C" of the seal table, in row order
    oleo         \* oleo_pneumatic_sizing: arguments and locals

solverVars == <<args, x_t, lambda_val, x_t_new, iter, ret>>
pairVars == <<pending, rets>>
strokeVars == <<job, strokes>>
wrapVars == <<crf, srf, results, main_results, table>>
oleoVars == <<seal_db, oleo>>
vars == <<pc, caller, err, solverVars, pairVars, strokeVars, wrapVars, oleoVars>>

-----------------------------------------------------------------------------
(* Fixed-point arithmetic *)

XU == 10^8     \* length units per metre
LU == 10^8     \* lambda units per 1.0
VU == 10^7     \* speed units per m/s; also units of V**2 per (m/s)^2

Abs(a) == IF a < 0 THEN -a ELSE a
Sgn(a) == IF a < 0 THEN -1 ELSE 1

\* <<q, r>> with a*b = q*c + r and 0 <= r < c, for a, b >= 0 and c > 0,
\* computed without forming a*b (which does not fit a machine integer).
RECURSIVE MulDivQR(_, _, _)
MulDivQR(a, b, c) ==
    IF b = 0 THEN <<0, 0>>
    ELSE LET h == MulDivQR(a, b \div 2, c)
             t == 2 * h[2] + (b % 2) * (a % c)
         IN  <<2 * h[1] + (b % 2) * (a \div c) + (t \div c), t % c>>

\* a*b/c rounded half-up (away from zero for negative results); c # 0.
MulDivR(a, b, c) ==
    LET qr == MulDivQR(Abs(a), Abs(b), Abs(c))
        q  == IF 2 * qr[2] >= Abs(c) THEN qr[1] + 1 ELSE qr[1]
    IN  Sgn(a) * Sgn(b) * Sgn(c) * q

-----------------------------------------------------------------------------
(* lambda_xt_iter: defaults of the keyword parameters *)

eta_a_pct == 80            \* eta_a = 0.80
eta_t_pct == 47            \* eta_t = 0.47
g_centi == 981             \* g = 9.81
tol == XU \div 1000000     \* tol = 1e-6 (metres)
max_iter_default == 100    \* max_iter = 100

\* r_max = r_max_in * 0.0254: 0.01 in -> 1e-6 m, exact.
InchToMetre(r_in) == r_in * 254

\* initial value of x_t: 0.1
x_t_init == XU \div 10

\* V**2, in VU units
Square(V) == MulDivR(V, V, VU)

\* Mutant of LambdaOf: the quotient inverted.
LambdaInverted(V, x_a, xt) ==
    LET s == MulDivR(x_a, eta_a_pct, 100) + MulDivR(xt, eta_t_pct, 100)
        d == MulDivR(s, 2 * g_centi, 1000)
    IN  MulDivR(d, LU, Square(V))

\* lambda_val = V**2 / (2 * g * (eta_a * x_a + eta_t * x_t))
LambdaOf(V, x_a, xt) ==
    LET s == MulDivR(x_a, eta_a_pct, 100) + MulDivR(xt, eta_t_pct, 100)  \* 1e-8 m
        d == MulDivR(s, 2 * g_centi, 1000)                               \* 1e-7 m2/s2
    IN  MulDivR(Square(V), LU, d)

\* Mutant of TyreStrokeOf: the radii swapped (r_min - r_max).
TyreStrokeSwapped(lam, m, r_max, r_min, load_rating, n_tyres) ==
    MulDivR(lam, MulDivR(m, 9 * g_centi * (r_min - r_max), 10^7), load_rating * n_tyres)

\* x_t_new = (0.9 * lambda_val * g * m * (r_max - r_min)) / (load_rating * n_tyres)
\* r_max, r_min in 1e-6 m; load_rating in 0.01 N.  The factor
\* 0.9*g*m*(r_max - r_min) is formed first (in 0.01 N m), then multiplied by
\* lambda and divided by load_rating*n_tyres with one rounding.
TyreStrokeOf(lam, m, r_max, r_min, load_rating, n_tyres) ==
    MulDivR(lam, MulDivR(m, 9 * g_centi * (r_max - r_min), 10^7), load_rating * n_tyres)

\* Mutant of Converged: the absolute value forgotten.
ConvergedNoAbs(xnew, xold) == xnew - xold < tol

\* if abs(x_t_new - x_t) < tol
Converged(xnew, xold) == Abs(xnew - xold) < tol

\* Mutant of LoopHasNext: the iteration cap a twentieth of max_iter.
LoopHasNextShort(k, maxit) == k < maxit \div 20

\* Mutant of LoopHasNext: one iteration too many.
LoopHasNextOffByOne(k, maxit) == k <= maxit

\* for _ in range(max_iter): the loop has another pass after k passes
LoopHasNext(k, maxit) == k < maxit

\* Mutant of ReturnValue: the freshly updated stroke returned.
ReturnValueUpdated(lam, xt, xtnew) == <<lam, xtnew>>

\* return lambda_val, x_t
ReturnValue(lam, xt, xtnew) == <<lam, xt>>

\* lambda computed in a loop pass from the current x_t
PassLambda == LambdaOf(args.V, args.x_a, x_t)

\* x_t_new computed in a loop pass
PassTyreStroke ==
    TyreStrokeOf(PassLambda, args.m, InchToMetre(args.r_max_in),
                 InchToMetre(args.r_min_in), args.load_rating, args.n_tyres)

\* state of the locals when lambda_xt_iter is entered
EnterSolver(a) ==
    /\ args' = a
    /\ x_t' = x_t_init
    /\ lambda_val' = 0
    /\ x_t_new' = 0
    /\ iter' = 0
    /\ ret' = <<>>
    /\ pc' = "loop"

\* a loop pass whose tolerance test succeeds: break
LoopBreak ==
    /\ pc = "loop"
    /\ LoopHasNext(iter, args.max_iter)
    /\ Converged(PassTyreStroke, x_t)
    /\ lambda_val' = PassLambda
    /\ x_t_new' = PassTyreStroke
    /\ iter' = iter + 1
    /\ pc' = "break"
    /\ UNCHANGED <<caller, args, x_t, ret, err, pairVars, strokeVars, wrapVars, oleoVars>>

\* a loop pass whose tolerance test fails: x_t = x_t_new
LoopUpdate ==
    /\ pc = "loop"
    /\ LoopHasNext(iter, args.max_iter)
    /\ ~Converged(PassTyreStroke, x_t)
    /\ lambda_val' = PassLambda
    /\ x_t_new' = PassTyreStroke
    /\ x_t' = PassTyreStroke
    /\ iter' = iter + 1
    /\ UNCHANGED <<pc, caller, args, ret, err, pairVars, strokeVars, wrapVars, oleoVars>>

\* the for loop's else clause: raise RuntimeError("Iteration did not converge.")
LoopElse ==
    /\ pc = "loop"
    /\ ~LoopHasNext(iter, args.max_iter)
    /\ err' = "RuntimeError"
    /\ pc' = "raised"
    /\ UNCHANGED <<caller, solverVars, pairVars, strokeVars, wrapVars, oleoVars>>

\* return lambda_val, x_t
SolverReturn ==
    /\ pc = "break"
    /\ ret' = ReturnValue(lambda_val, x_t, x_t_new)
    /\ pc' = "done"
    /\ UNCHANGED <<caller, args, x_t, lambda_val, x_t_new, iter, err, pairVars, strokeVars, wrapVars, oleoVars>>

SolverStep == LoopBreak \/ LoopUpdate \/ LoopElse \/ SolverReturn

-----------------------------------------------------------------------------
(* Inputs *)

\* lbs * 4.44822 (solve_reaction_factor), in 0.01 N
LbsToNewton(lbs) == MulDivR(lbs, 444822, 1000)

\* Rows of the tyre table (get_tyre_data), indexed by tyre code:
\* do_max_in and static_radius_max_in in 0.01 in, rated_load_lbs in lbs with
\* the thousands separator removed.
\* 1: do_max_in 49.5, static radius 20.5, rated load "50,000" (the example scenario)
\* 2: do_max_in 30.0, static radius 12.7, rated load "12,000"
Tyres ==
    << [do_max_in |-> 4950, static_radius_max_in |-> 2050, rated_load_lbs |-> 50000],
       [do_max_in |-> 3000, static_radius_max_in |-> 1270, rated_load_lbs |-> 12000] >>

\* r_max_in = float(tyre['do_max_in']) / 2
TyreRMaxIn(tyre) == tyre.do_max_in \div 2

\* r_min_in = float(tyre['static_radius_max_in'])
TyreRMinIn(tyre) == tyre.static_radius_max_in

\* load_rating = rated_load_lbs * 4.44822
TyreLoadRating(tyre) == LbsToNewton(tyre.rated_load_lbs)

\* Gear configurations: (mass, tyre, tyre count).
GearChoices ==
    << [m |-> 76000, tyre |-> 1, n_tyres |-> 4],
       [m |-> 11400, tyre |-> 2, n_tyres |-> 2],
       [m |-> 64600, tyre |-> 1, n_tyres |-> 4],
       [m |-> 76000, tyre |-> 1, n_tyres |-> 2] >>

\* Speeds V: 3.05, 1.83, 3.7, 2.5 m/s
SpeedChoices == <<30500000, 18300000, 37000000, 25000000>>

\* Assumed shock-absorber strokes x_a: 0.5, 0.0222, 0.01, 0.54, 0.405, 0, 0.3 m
StrokeChoices == <<50000000, 2220000, 1000000, 54000000, 40500000, 0, 30000000>>

NumGears == 2
NumSpeeds == 3
NumStrokes == 6

SolverArgs(V, x_a, gear) ==
    [V |-> V, x_a |-> x_a, m |-> gear.m,
     r_max_in |-> TyreRMaxIn(Tyres[gear.tyre]),
     r_min_in |-> TyreRMinIn(Tyres[gear.tyre]),
     load_rating |-> TyreLoadRating(Tyres[gear.tyre]),
     n_tyres |-> gear.n_tyres,
     max_iter |-> max_iter_default]

SolverInputs ==
    { SolverArgs(SpeedChoices[i], StrokeChoices[j], GearChoices[k]) :
        i \in 1..NumSpeeds, j \in 1..NumStrokes, k \in 1..NumGears }

\* The example scenario: do_max_in=49.5, static_radius_max_in=20.5, "50,000" lbs,
\* 4 tyres, mass 76000, speed 3.05, assumed stroke 0.5.
ExampleScenario == SolverArgs(30500000, 50000000, GearChoices[1])

NoArgs == [V |-> 0, x_a |-> 0, m |-> 0, r_max_in |-> 0, r_min_in |-> 0,
           load_rating |-> 0, n_tyres |-> 0, max_iter |-> 0]

SolverIdle ==
    /\ args = NoArgs /\ x_t = 0 /\ lambda_val = 0 /\ x_t_new = 0 /\ iter = 0
    /\ ret = <<>>
PairIdle == pending = <<>> /\ rets = <<>>
StrokeIdle == job = <<>> /\ strokes = <<>>
WrapIdle ==
    /\ crf = <<>> /\ srf = <<>> /\ results = <<>> /\ main_results = <<>>
    /\ table = <<>>
OleoIdle == seal_db = <<>> /\ oleo = <<>>

-----------------------------------------------------------------------------
(* One call of lambda_xt_iter *)

InitSolver ==
    /\ pc = "loop"
    /\ caller = "none"
    /\ err = "none"
    /\ args \in SolverInputs
    /\ x_t = x_t_init
    /\ lambda_val = 0
    /\ x_t_new = 0
    /\ iter = 0
    /\ ret = <<>>
    /\ PairIdle /\ StrokeIdle /\ WrapIdle /\ OleoIdle

NextSolver == LoopBreak \/ LoopUpdate \/ LoopElse \/ SolverReturn

SpecSolver == InitSolver /\ [][NextSolver]_vars

\* The inputs the contract calls valid and positive.
ValidPositive(a) ==
    /\ a.V > 0 /\ a.m > 0 /\ a.r_min_in > 0 /\ a.r_max_in > a.r_min_in
    /\ a.load_rating > 0 /\ a.n_tyres > 0 /\ a.max_iter = max_iter_default

\* The two governing equations evaluated on a pair (lam, xt) for arguments a.
ForwardLambda(a, xt) == LambdaOf(a.V, a.x_a, xt)
ForwardStroke(a, lam) ==
    TyreStrokeOf(lam, a.m, InchToMetre(a.r_max_in), InchToMetre(a.r_min_in),
                 a.load_rating, a.n_tyres)

\* C1 as stated: with valid positive inputs (and a positive assumed stroke) the
\* call never ends in the convergence error, and what it returns has
\* lambda > 0 and tyre stroke >= 0.
C1_AlwaysConverges ==
    (ValidPositive(args) /\ args.x_a > 0) =>
        /\ pc # "raised"
        /\ (pc = "done" => ret[1] > 0 /\ ret[2] >= 0)

\* C1 amended: with valid positive inputs and x_a >= 0 every value the call
\* returns has lambda > 0 and tyre stroke > 0, and the example scenario
\* converges; a call may instead end in the convergence error.
C1_ReturnedPairPositive ==
    (ValidPositive(args) /\ args.x_a >= 0) =>
        /\ (pc = "done" => ret[1] > 0 /\ ret[2] > 0)
        /\ (args = ExampleScenario => pc # "raised")

C1_Witness ==
    /\ pc = "done" /\ args = ExampleScenario /\ ret[1] > 0 /\ ret[2] > 0 /\ iter > 1

\* C2: a value is returned only after a pass k <= max_iter whose tolerance test
\* succeeded; when max_iter passes end without it (the last pass ended in the
\* update x_t = x_t_new) the call ends in RuntimeError and returns nothing; a
\* success on pass max_iter returns.
C2_ReturnOnlyIfConverged ==
    /\ pc \in {"break", "done"} =>
          /\ iter >= 1 /\ iter <= args.max_iter
          /\ Abs(x_t_new - x_t) < tol
          /\ err = "none"
    /\ pc = "done" => ret # <<>>
    /\ pc = "raised" =>
          /\ iter = args.max_iter
          /\ ret = <<>>
          /\ err = "RuntimeError"
          /\ x_t = x_t_new
    /\ ret # <<>> => pc = "done"

\* C2 witness: the tolerance test succeeded on the last allowed pass and the
\* call returned.
C2_Witness == pc = "done" /\ iter = args.max_iter /\ ret # <<>> /\ err = "none"

\* C3 as stated: the tyre stroke returned is the freshly updated x_t_new.
C3_ReturnsUpdatedStroke == pc = "done" => ret = <<lambda_val, x_t_new>>

\* C3 amended: the pair returned is (lambda_val, x_t) with x_t the stroke
\* from which lambda_val was computed in the last pass (the value before the
\* update); x_t_new is not returned and differs from it by less than tol.
C3_ReturnsPreUpdateStroke ==
    pc = "done" =>
        /\ ret = <<lambda_val, x_t>>
        /\ ret[1] = ForwardLambda(args, ret[2])
        /\ x_t_new = ForwardStroke(args, ret[1])
        /\ Abs(x_t_new - ret[2]) < tol

C3_Witness == pc = "done" /\ ret[2] # x_t_new /\ ret[2] = x_t

\* C4: a returned pair satisfies both governing equations within 1e-6:
\* |lambda - V^2/(2g(eta_a x_a + eta_t x_t))| < 1e-6 and
\* |x_t - 0.9 lambda g m (r_max - r_min)/(load_rating n_tyres)| < 1e-6.
C4_ResidualsWithinTolerance ==
    pc = "done" =>
        /\ Abs(ret[1] - ForwardLambda(args, ret[2])) < LU \div 1000000
        /\ Abs(ret[2] - ForwardStroke(args, ret[1])) < XU \div 1000000

C4_Witness ==
    /\ pc = "done" /\ args = ExampleScenario
    /\ ret[2] # ForwardStroke(args, ret[1])

-----------------------------------------------------------------------------
(* compute_reaction_factors_for_aircraft and solve_reaction_factor *)

\* for V in [1.83, 3.05, 3.7]
CaseSpeeds == <<18300000, 30500000, 37000000>>

\* Rows of the aircraft table (get_aircraft_data); tyre codes index Tyres.
\* Masses are multiples of 20 kg, so that the nose-gear share is a whole
\* number of kilograms.
AircraftChoices ==
    << [name |-> "A", mtom |-> 76000, mlm |-> 76000, num_main_tyres |-> 4,
        main_gear_tyre_code |-> 1, nose_gear_tyre_code |-> 2],
       [name |-> "B", mtom |-> 79000, mlm |-> 67400, num_main_tyres |-> 4,
        main_gear_tyre_code |-> 1, nose_gear_tyre_code |-> 2],
       [name |-> "C", mtom |-> 140000, mlm |-> 120000, num_main_tyres |-> 8,
        main_gear_tyre_code |-> 1, nose_gear_tyre_code |-> 2] >>

\* nose_gear_mass_fraction, in percent: the default 0.15, then 0.10
FractionChoices == <<15, 10>>

\* x_a_main and x_a_nose: 0.54, 0.405, 0.0222, 0.01, 0.3 m
WrapStrokeChoices == <<54000000, 40500000, 2220000, 1000000, 30000000>>

NumAircraft == 2
NumFractions == 1
NumWrapStrokes == 4

\* m = mtom if V == 1.83 else mlm
CaseMass(V, mtom, mlm) == IF V = 18300000 THEN mtom ELSE mlm

\* Mutant of NoseMass: the main-gear share (1 - fraction) of the mass.
NoseMassComplement(fraction, mass) == mass - MulDivR(fraction, mass, 100)

\* mtom_nose = nose_gear_mass_fraction * aircraft["mtom"] (and mlm likewise)
NoseMass(fraction, mass) == MulDivR(fraction, mass, 100)

\* Mutant of NoseTyreCount: the main-gear tyre count.
NoseTyreCountMain(aircraft) == aircraft.num_main_tyres

\* n_tyres=2 in the nose-gear call
NoseTyreCount(aircraft) == 2

\* Mutant of ResultTable: nose-gear rows first.
ResultTableNoseFirst(main, nose) == nose \o main

\* pd.DataFrame(main_results + nose_results)
ResultTable(main, nose) == main \o nose

\* a call of solve_reaction_factor up to the start of its loop
SrfEnter(gear, tyre_code, mtom, mlm, n_tyres, x_a) ==
    /\ srf' = [gear |-> gear, tyre_code |-> tyre_code, mtom |-> mtom, mlm |-> mlm,
               n_tyres |-> n_tyres, x_a |-> x_a,
               r_max_in |-> TyreRMaxIn(Tyres[tyre_code]),
               r_min_in |-> TyreRMinIn(Tyres[tyre_code]),
               load_rating |-> TyreLoadRating(Tyres[tyre_code]),
               idx |-> 1]
    /\ results' = <<>>
    /\ pc' = "srf_loop"

\* main_results = solve_reaction_factor(main tyre, mtom, mlm, num_main_tyres, x_a_main)
CrfCallMain ==
    /\ pc = "crf_start"
    /\ SrfEnter("main", crf.aircraft.main_gear_tyre_code, crf.aircraft.mtom,
                crf.aircraft.mlm, crf.aircraft.num_main_tyres, crf.x_a_main)
    /\ UNCHANGED <<caller, err, solverVars, pairVars, strokeVars, crf, main_results,
                   table, oleoVars>>

\* one pass of the loop over V: lambda_xt_iter is called
SrfCase ==
    /\ pc = "srf_loop"
    /\ srf.idx <= Len(CaseSpeeds)
    /\ EnterSolver([V |-> CaseSpeeds[srf.idx], x_a |-> srf.x_a,
                    m |-> CaseMass(CaseSpeeds[srf.idx], srf.mtom, srf.mlm),
                    r_max_in |-> srf.r_max_in, r_min_in |-> srf.r_min_in,
                    load_rating |-> srf.load_rating, n_tyres |-> srf.n_tyres,
                    max_iter |-> max_iter_default])
    /\ UNCHANGED <<caller, err, pairVars, strokeVars, wrapVars, oleoVars>>

\* results.append({...}) after lambda_xt_iter returned
SrfAppend ==
    /\ pc = "done"
    /\ caller = "wrapper"
    /\ results' = Append(results,
          [tyre_code |-> srf.tyre_code, V |-> args.V, mass |-> args.m,
           lambda |-> ret[1], x_a |-> srf.x_a, x_t |-> ret[2]])
    /\ srf' = [srf EXCEPT !.idx = @ + 1]
    /\ pc' = "srf_loop"
    /\ UNCHANGED <<caller, err, solverVars, pairVars, strokeVars, crf, main_results,
                   table, oleoVars>>

\* return results, back in compute_reaction_factors_for_aircraft
SrfReturn ==
    /\ pc = "srf_loop"
    /\ srf.idx > Len(CaseSpeeds)
    /\ IF srf.gear = "main"
         THEN main_results' = results /\ pc' = "crf_nose"
         ELSE UNCHANGED main_results /\ pc' = "crf_return"
    /\ UNCHANGED <<caller, err, solverVars, pairVars, strokeVars, crf, srf, results,
                   table, oleoVars>>

\* nose_results = solve_reaction_factor(nose tyre, mtom_nose, mlm_nose, 2, x_a_nose)
CrfCallNose ==
    /\ pc = "crf_nose"
    /\ SrfEnter("nose", crf.aircraft.nose_gear_tyre_code,
                NoseMass(crf.nose_gear_mass_fraction, crf.aircraft.mtom),
                NoseMass(crf.nose_gear_mass_fraction, crf.aircraft.mlm),
                NoseTyreCount(crf.aircraft), crf.x_a_nose)
    /\ UNCHANGED <<caller, err, solverVars, pairVars, strokeVars, crf, main_results,
                   table, oleoVars>>

\* return pd.DataFrame(main_results + nose_results)
CrfReturn ==
    /\ pc = "crf_return"
    /\ table' = ResultTable(main_results, results)
    /\ pc' = "returned"
    /\ UNCHANGED <<caller, err, solverVars, pairVars, strokeVars, crf, srf, results,
                   main_results, oleoVars>>

InitWrapper ==
    /\ pc = "crf_start"
    /\ caller = "wrapper"
    /\ err = "none"
    /\ \E a \in 1..NumAircraft, f \in 1..NumFractions,
          i \in 1..NumWrapStrokes, j \in 1..NumWrapStrokes :
          crf = [aircraft |-> AircraftChoices[a],
                 x_a_main |-> WrapStrokeChoices[i],
                 x_a_nose |-> WrapStrokeChoices[j],
                 nose_gear_mass_fraction |-> FractionChoices[f]]
    /\ srf = <<>> /\ results = <<>> /\ main_results = <<>> /\ table = <<>>
    /\ SolverIdle /\ PairIdle /\ StrokeIdle /\ OleoIdle

NextWrapper ==
    \/ CrfCallMain \/ SrfCase \/ SrfAppend \/ SrfReturn \/ CrfCallNose \/ CrfReturn
    \/ LoopBreak \/ LoopUpdate \/ LoopElse \/ SolverReturn

SpecWrapper == InitWrapper /\ [][NextWrapper]_vars

\* The lambda_xt_iter arguments a result row stands for, given the gear's
\* tyre and tyre count.
RowArgs(row, n_tyres) ==
    [V |-> row.V, x_a |-> row.x_a, m |-> row.mass,
     r_max_in |-> TyreRMaxIn(Tyres[row.tyre_code]),
     r_min_in |-> TyreRMinIn(Tyres[row.tyre_code]),
     load_rating |-> TyreLoadRating(Tyres[row.tyre_code]),
     n_tyres |-> n_tyres, max_iter |-> max_iter_default]

\* A row is a solution for the tyre count n_tyres.
RowSolvedWith(row, n_tyres) ==
    /\ row.lambda = ForwardLambda(RowArgs(row, n_tyres), row.x_t)
    /\ Abs(ForwardStroke(RowArgs(row, n_tyres), row.lambda) - row.x_t) < tol

\* C10: a returned table has exactly six rows, main gear then nose gear, each
\* gear's rows in the order 1.83 (mtom), 3.05, 3.7 (mlm); main rows solved
\* with num_main_tyres and the aircraft mass, nose rows with 2 tyres and the
\* nose fraction of the aircraft mass; each row carries its gear's x_a; and
\* no table is returned when a case ends in the convergence error.
C10_SixRowsMainThenNose ==
    /\ Len(results) <= 3 /\ Len(main_results) \in {0, 3}
    /\ (table # <<>>) <=> (pc = "returned")
    /\ pc = "raised" => table = <<>> /\ err = "RuntimeError"
    /\ pc = "returned" =>
          /\ Len(table) = 6
          /\ \A i \in 1..3 :
                /\ table[i].V = CaseSpeeds[i] /\ table[i + 3].V = CaseSpeeds[i]
                /\ table[i].tyre_code = crf.aircraft.main_gear_tyre_code
                /\ table[i + 3].tyre_code = crf.aircraft.nose_gear_tyre_code
                /\ table[i].mass =
                      (IF i = 1 THEN crf.aircraft.mtom ELSE crf.aircraft.mlm)
                /\ 100 * table[i + 3].mass = crf.nose_gear_mass_fraction *
                      (IF i = 1 THEN crf.aircraft.mtom ELSE crf.aircraft.mlm)
                /\ table[i].x_a = crf.x_a_main
                /\ table[i + 3].x_a = crf.x_a_nose
                /\ RowSolvedWith(table[i], crf.aircraft.num_main_tyres)
                /\ RowSolvedWith(table[i + 3], 2)

C10_Witness ==
    /\ pc = "returned" /\ Len(table) = 6
    /\ crf.aircraft.num_main_tyres # 2
    /\ crf.aircraft.mtom # crf.aircraft.mlm
    /\ crf.x_a_main # crf.x_a_nose

\* A case failed after earlier cases had produced rows: nothing is returned.
C10_FailureReached == pc = "raised" /\ Len(main_results) = 3 /\ table = <<>>

-----------------------------------------------------------------------------
(* Two calls of lambda_xt_iter that differ only in speed *)

\* Speeds of the two calls: 3.2820083, 3.2820084, 1.83, 3.05, 3.7, 2.5 m/s
PairSpeedChoices == <<32820083, 32820084, 18300000, 30500000, 37000000, 25000000>>

\* Assumed strokes of the two calls: 0.5, 0.405, 0.01, 0.54, 0.3 m
PairStrokeChoices == <<50000000, 40500000, 1000000, 54000000, 30000000>>

NumPairSpeeds == 5
NumPairStrokes == 3

\* what a finished call leaves behind
CallRecord == [lambda |-> ret[1], x_t |-> ret[2], x_t_new |-> x_t_new, iter |-> iter]

\* the first call returned: the second call is made
PairNextCall ==
    /\ pc = "done"
    /\ caller = "pair"
    /\ pending # <<>>
    /\ rets' = Append(rets, CallRecord)
    /\ pending' = Tail(pending)
    /\ EnterSolver(Head(pending))
    /\ UNCHANGED <<caller, err, strokeVars, wrapVars, oleoVars>>

\* the last call returned
PairFinish ==
    /\ pc = "done"
    /\ caller = "pair"
    /\ pending = <<>>
    /\ rets' = Append(rets, CallRecord)
    /\ pc' = "finished"
    /\ UNCHANGED <<caller, err, solverVars, pending, strokeVars, wrapVars, oleoVars>>

InitPair ==
    /\ caller = "pair"
    /\ err = "none"
    /\ pc = "loop"
    /\ \E i \in 1..NumPairSpeeds, j \in 1..NumPairSpeeds,
          k \in 1..NumPairStrokes, n \in 1..NumGears :
          /\ PairSpeedChoices[i] < PairSpeedChoices[j]
          /\ args = SolverArgs(PairSpeedChoices[i], PairStrokeChoices[k], GearChoices[n])
          /\ pending = << SolverArgs(PairSpeedChoices[j], PairStrokeChoices[k],
                                     GearChoices[n]) >>
    /\ x_t = x_t_init /\ lambda_val = 0 /\ x_t_new = 0 /\ iter = 0 /\ ret = <<>>
    /\ rets = <<>>
    /\ StrokeIdle /\ WrapIdle /\ OleoIdle

NextPair ==
    \/ LoopBreak \/ LoopUpdate \/ LoopElse \/ SolverReturn
    \/ PairNextCall \/ PairFinish

SpecPair == InitPair /\ [][NextPair]_vars

\* C8 as stated: of two converged calls that differ only in speed, the call
\* with the greater speed returns the strictly greater lambda.
C8_LambdaStrictlyIncreasing ==
    pc = "finished" => rets[2].lambda > rets[1].lambda

\* C8 amended: the call with the greater speed returns the strictly greater
\* lambda when both calls stop after the same number of iterations; when the
\* iteration counts differ the returned lambda may be smaller, and then the
\* tyre stroke it stands for (x_t_new) is smaller by less than 2*tol.
C8_IncreasingUpToTolerance ==
    pc = "finished" =>
        /\ (rets[1].iter = rets[2].iter => rets[2].lambda > rets[1].lambda)
        /\ rets[1].x_t_new - rets[2].x_t_new < 2 * tol

C8_Witness ==
    /\ pc = "finished" /\ rets[1].iter = rets[2].iter /\ rets[1].iter > 1
    /\ rets[2].lambda > rets[1].lambda

-----------------------------------------------------------------------------
(* compute_full_stroke_from_reaction_factor, and the solver run on its x_a *)

\* x_t = (0.9 * lambda_val * g * mass * (r_max - r_min)) / (load_rating * n_tyres)
FullStrokeXt(mass, lam, tyre, n_tyres) ==
    TyreStrokeOf(lam, mass, InchToMetre(TyreRMaxIn(tyre)), InchToMetre(TyreRMinIn(tyre)),
                 TyreLoadRating(tyre), n_tyres)

\* Mutant of FullStrokeXa: the tyre term not divided by eta_a.
FullStrokeXaNoRatio(V, lam, xt) ==
    MulDivR(Square(V), XU, MulDivR(lam, 2 * g_centi * eta_a_pct, 100000))
        - MulDivR(xt, eta_t_pct, 100)

\* x_a = (V**2) / (2 * g * eta_a * lambda_val) - (eta_t / eta_a) * x_t
FullStrokeXa(V, lam, xt) ==
    MulDivR(Square(V), XU, MulDivR(lam, 2 * g_centi * eta_a_pct, 100000))
        - MulDivR(xt, eta_t_pct, eta_a_pct)

\* x_total = x_t + x_a
FullStrokeTotal(xt, xa) == xt + xa

\* Design reaction factors lambda_val: 1.1, 1.2, 3.8, 4.0, 0.8, 2.0
LambdaChoices == <<110000000, 120000000, 380000000, 400000000, 80000000, 200000000>>

\* Gear arguments: (mass, tyre code, tyre count)
StrokeGearChoices ==
    << [m |-> 64600, tyre |-> 1, n_tyres |-> 4],
       [m |-> 11400, tyre |-> 2, n_tyres |-> 2],
       [m |-> 76000, tyre |-> 1, n_tyres |-> 4] >>

NumLambdas == 5
NumStrokeGears == 2

\* the body of compute_full_stroke_from_reaction_factor
ComputeFullStroke ==
    /\ pc = "cfs"
    /\ LET xt == FullStrokeXt(job.mass, job.lambda_val, Tyres[job.tyre], job.n_tyres)
           xa == FullStrokeXa(job.V, job.lambda_val, xt)
       IN  strokes' = <<xt, xa, FullStrokeTotal(xt, xa)>>
    /\ pc' = "cfs_done"
    /\ UNCHANGED <<caller, err, solverVars, pairVars, job, wrapVars, oleoVars>>

\* lambda_xt_iter called with the x_a just computed, when it is positive
RoundTripCall ==
    /\ pc = "cfs_done"
    /\ strokes[2] > 0
    /\ EnterSolver([V |-> job.V, x_a |-> strokes[2], m |-> job.mass,
                    r_max_in |-> TyreRMaxIn(Tyres[job.tyre]),
                    r_min_in |-> TyreRMinIn(Tyres[job.tyre]),
                    load_rating |-> TyreLoadRating(Tyres[job.tyre]),
                    n_tyres |-> job.n_tyres, max_iter |-> max_iter_default])
    /\ UNCHANGED <<caller, err, pairVars, strokeVars, wrapVars, oleoVars>>

InitRoundTrip ==
    /\ pc = "cfs"
    /\ caller = "roundtrip"
    /\ err = "none"
    /\ \E i \in 1..NumLambdas, j \in 1..Len(CaseSpeeds), k \in 1..NumStrokeGears :
          job = [mass |-> StrokeGearChoices[k].m, lambda_val |-> LambdaChoices[i],
                 V |-> CaseSpeeds[j], tyre |-> StrokeGearChoices[k].tyre,
                 n_tyres |-> StrokeGearChoices[k].n_tyres]
    /\ strokes = <<>>
    /\ SolverIdle /\ PairIdle /\ WrapIdle /\ OleoIdle

NextRoundTrip ==
    \/ ComputeFullStroke \/ RoundTripCall
    \/ LoopBreak \/ LoopUpdate \/ LoopElse \/ SolverReturn

SpecRoundTrip == InitRoundTrip /\ [][NextRoundTrip]_vars

\* The algebraic part of the round trip: the forward equation at (x_a, x_t)
\* gives lambda0 back (to 1e-6), x_t is the tyre-stroke equation at lambda0,
\* and x_total = x_t + x_a.
RoundTripAlgebra ==
    strokes # <<>> =>
        /\ Abs(LambdaOf(job.V, strokes[2], strokes[1]) - job.lambda_val)
              < LU \div 1000000
        /\ strokes[1] = FullStrokeXt(job.mass, job.lambda_val, Tyres[job.tyre],
                                     job.n_tyres)
        /\ (pc # "cfs_done" => strokes[1] = ForwardStroke(args, job.lambda_val))
        /\ strokes[3] = strokes[1] + strokes[2]

\* C9 as stated: the algebraic round trip holds, and lambda_xt_iter run with
\* a positive x_a converges (no convergence error) to lambda0 within 1e-6.
C9_RoundTripConverges ==
    /\ RoundTripAlgebra
    /\ pc # "raised"
    /\ pc = "done" => Abs(ret[1] - job.lambda_val) < LU \div 1000000

\* C9 amended: the algebraic round trip holds; lambda_xt_iter run with a
\* positive x_a either ends in the convergence error or returns a pair whose
\* tyre stroke, and the tyre stroke its lambda stands for, are within tol
\* of the tyre stroke of lambda0.
C9_RoundTripWithinStrokeTolerance ==
    /\ RoundTripAlgebra
    /\ pc = "done" =>
          /\ Abs(ret[2] - strokes[1]) < tol
          /\ Abs(ForwardStroke(args, ret[1]) - strokes[1]) < tol

C9_Witness ==
    /\ pc = "done" /\ strokes[2] > 0 /\ ret[1] # job.lambda_val
    /\ Abs(ret[2] - strokes[1]) < tol

-----------------------------------------------------------------------------
(* oleo_pneumatic_sizing *)
(* Units: forces 0.01 N; areas 1e-8 m2; diameters 1e-7 m and 1e-6 in;       *)
(* pressures Pa (static_pressure argument in kPa); volumes 1e-9 m3;         *)
(* travel in mm; x_static in 1e-6 m; fractions and factors in percent.      *)

pi_e8 == 314159265             \* math.pi, np.pi
inch_per_metre_e4 == 393701    \* 39.3701

\* ramp_mass_kg * gravity * load_fraction / num_gear_legs
ForcePerGear(mass, load_fraction, legs) ==
    MulDivR(MulDivR(mass * g_centi, load_fraction, 100), 1, legs)

\* breakout_load = breakout_load_fraction * force_per_gear_landing
BreakoutLoad(fraction, force) == MulDivR(fraction, force, 100)

\* A_piston = force_per_gear_ramp / static_pressure
PistonArea(force, static_pressure) == MulDivR(force, 1000, static_pressure)

\* the greatest d in lo..hi-1 with d*d <= q (d in 1e-7 m, q in 1e-8 m2)
RECURSIVE SqrtSearch(_, _, _)
SqrtSearch(q, lo, hi) ==
    IF hi - lo <= 1 THEN lo
    ELSE LET mid == (lo + hi) \div 2
         IN  IF MulDivQR(mid, mid, 10^6)[1] <= q
               THEN SqrtSearch(q, mid, hi)
               ELSE SqrtSearch(q, lo, mid)

\* d_piston = (4 * A_piston / math.pi) ** 0.5
PistonDiameter(area) == SqrtSearch(MulDivR(4 * area, 10^8, pi_e8), 0, 4 * 10^7)

\* d_piston_in = d_piston * 39.3701
MetreToInch(d) == MulDivR(d, inch_per_metre_e4, 100000)

\* selected_B = selected_B_in / 39.3701
InchToMetreBack(c) == MulDivR(c, 100000, inch_per_metre_e4)

\* Mutant of SealExceeds: an entry equal to the diameter accepted.
SealExceedsOrEqual(c, d_in) == c >= d_in

\* seal_db["C"] > d_piston_in
SealExceeds(c, d_in) == c > d_in

\* seal_db[seal_db["C"] > d_piston_in]: the rows kept, in table order
RECURSIVE SealFilter(_, _)
SealFilter(db, d_in) ==
    IF db = <<>> THEN <<>>
    ELSE IF SealExceeds(Head(db), d_in)
           THEN <<Head(db)>> \o SealFilter(Tail(db), d_in)
           ELSE SealFilter(Tail(db), d_in)

\* A_piston_corrected = (np.pi * d_corrected ** 2) / 4
CorrectedArea(d) == MulDivR(MulDivR(d, d, 10^6), pi_e8, 4 * 10^8)

\* force / A_piston_corrected
Pressure(force, area) == MulDivR(force, 10^6, area)

\* A_piston_corrected * shock_absorber_travel_m
SweptVolume(area, travel) == MulDivR(area, travel, 100)

\* Mutant of ExtendedVolume: P_0 in the numerator.
ExtendedVolumeBreakout(area, travel, P_0, P_2) ==
    MulDivR(SweptVolume(area, travel), P_0, P_2 - P_0)

\* V_0 = (A_piston_corrected * shock_absorber_travel_m * P_2) / (P_2 - P_0)
ExtendedVolume(area, travel, P_0, P_2) ==
    MulDivR(SweptVolume(area, travel), P_2, P_2 - P_0)

\* V_1 = V_0 * P_0 / P_1
StaticVolume(V_0, P_0, P_1) == MulDivR(V_0, P_0, P_1)

\* x_static = (V_0 - V_1) / A_piston_corrected
StaticStroke(V_0, V_1, area) == MulDivR(V_0 - V_1, 10^5, area)

n_points == 100                \* n_points = 100

\* The floats inf and nan, as two integers no finite value of the model takes.
inf == 2^30 + (2^30 - 1)
nan == -inf

\* Mutant of Linspace: the end point left out (step stop/n).
LinspaceNoEndpoint(stop, n, k) == MulDivR(k - 1, stop, n)

\* np.linspace(0, stop, n)[k-1], k in 1..n: (k-1) * (stop / (n-1)), and the
\* last sample is stop itself
Linspace(stop, n, k) == IF k = n THEN stop ELSE MulDivR(k - 1, stop, n - 1)

\* V = V_0 - A_piston_corrected * x   (x in 1e-8 m)
CurveVolume(V_0, area, x) == V_0 - MulDivR(area, x, 10^7)

\* Mutant of CurvePressure: the volume ratio inverted.
CurvePressureInverted(P_0, V_0, V) == MulDivR(P_0, V, V_0)

\* P = P_0 * V_0 / V
CurvePressure(P_0, V_0, V) == MulDivR(P_0, V_0, V)

\* Column "C" of data/AS4716_seal_db.csv as read by pd.read_csv, in row order
\* (1e-6 in).  The file is not part of the sources; the tables below are
\* 1: ascending; 2: descending; 3: every bore too small; 4: ascending, with
\* bores equal to computed diameters; 5: empty; 6: shuffled.
SealTables ==
    << <<4000000, 4250000, 4500000, 5000000, 6000000, 7000000, 7250000, 7500000,
         8000000>>,
       <<8000000, 7500000, 7250000, 7000000, 6000000, 5000000, 4500000, 4250000,
         4000000>>,
       <<1000000, 2000000, 3000000, 4000000>>,
       <<4120376, 4200912, 4250000, 7332264, 7475575, 7500000>>,
       <<>>,
       <<7500000, 4250000, 8000000, 4500000>> >>

\* Arguments of the two calls in main_SA_sizing.py (main gear, nose gear):
\* load_fraction, shock_absorber_travel_m (mm), num_gear_legs,
\* max_load_factor, limit_stroke_m (mm), breakout_load_fraction.
OleoGearChoices ==
    << [load_fraction |-> 95, shock_absorber_travel_m |-> 600, num_gear_legs |-> 2,
        max_load_factor |-> 170, limit_stroke_m |-> 500,
        breakout_load_fraction |-> 17],
       [load_fraction |-> 15, shock_absorber_travel_m |-> 500, num_gear_legs |-> 1,
        max_load_factor |-> 220, limit_stroke_m |-> 450,
        breakout_load_fraction |-> 15] >>

\* (ramp_mass_kg, landing_mass_kg)
OleoMassChoices ==
    << [ramp |-> 76000, landing |-> 76000], [ramp |-> 79000, landing |-> 67400],
       [ramp |-> 140000, landing |-> 120000] >>

\* breakout_load_fraction overrides, percent; 0 keeps the gear's own value.
\* 120 puts the breakout load above the static load, 170 and 220 make it equal
\* to the maximum load of one gear and exceed that of the other.
BreakoutChoices == <<0, 120, 170, 220, 5>>

NumSealTables == 5
NumOleoMasses == 2
NumBreakouts == 4

OleoLocalsUnset ==
    [force_per_gear_ramp |-> 0, force_per_gear_landing |-> 0, breakout_load |-> 0,
     A_piston |-> 0, d_piston |-> 0, d_piston_in |-> 0, selected_B_in |-> 0,
     d_corrected |-> 0, A_piston_corrected |-> 0, P_0 |-> 0, P_1 |-> 0, P_2 |-> 0,
     P_max_ground_handling |-> 0, P_max_landing |-> 0,
     V_0 |-> 0, V_1 |-> 0, V_2 |-> 0, x_static |-> 0,
     x |-> <<>>, V |-> <<>>, P |-> <<>>]

\* lines 103-120: forces, breakout load, piston area and diameter
OleoPiston ==
    /\ pc = "oleo_start"
    /\ LET a     == oleo.args
           ramp  == ForcePerGear(a.ramp_mass_kg, a.load_fraction, a.num_gear_legs)
           land  == ForcePerGear(a.landing_mass_kg, a.load_fraction, a.num_gear_legs)
           area  == PistonArea(ramp, a.static_pressure)
           d     == PistonDiameter(area)
       IN  oleo' = [oleo EXCEPT !.loc.force_per_gear_ramp = ramp,
                                !.loc.force_per_gear_landing = land,
                                !.loc.breakout_load =
                                    BreakoutLoad(a.breakout_load_fraction, land),
                                !.loc.A_piston = area,
                                !.loc.d_piston = d,
                                !.loc.d_piston_in = MetreToInch(d)]
    /\ pc' = "oleo_seal"
    /\ UNCHANGED <<caller, err, solverVars, pairVars, strokeVars, wrapVars, seal_db>>

\* lines 123-128: the filtered table has a first row
OleoSealFound ==
    /\ pc = "oleo_seal"
    /\ SealFilter(seal_db, oleo.loc.d_piston_in) # <<>>
    /\ LET c == Head(SealFilter(seal_db, oleo.loc.d_piston_in))
       IN  oleo' = [oleo EXCEPT !.loc.selected_B_in = c,
                                !.loc.d_corrected = InchToMetreBack(c)]
    /\ pc' = "oleo_pressures"
    /\ UNCHANGED <<caller, err, solverVars, pairVars, strokeVars, wrapVars, seal_db>>

\* line 123: .iloc[0] of an empty frame raises IndexError
OleoSealMissing ==
    /\ pc = "oleo_seal"
    /\ SealFilter(seal_db, oleo.loc.d_piston_in) = <<>>
    /\ err' = "IndexError"
    /\ pc' = "raised"
    /\ UNCHANGED <<caller, solverVars, pairVars, strokeVars, wrapVars, oleoVars>>

\* lines 131-141: corrected area and the pressures
OleoPressures ==
    /\ pc = "oleo_pressures"
    /\ LET a    == oleo.args
           area == CorrectedArea(oleo.loc.d_corrected)
           P1   == Pressure(oleo.loc.force_per_gear_ramp, area)
       IN  oleo' = [oleo EXCEPT
                      !.loc.A_piston_corrected = area,
                      !.loc.P_0 = Pressure(oleo.loc.breakout_load, area),
                      !.loc.P_1 = P1,
                      !.loc.P_2 = Pressure(MulDivR(a.max_load_factor,
                                      oleo.loc.force_per_gear_ramp, 100), area),
                      !.loc.P_max_ground_handling =
                          MulDivR(a.max_load_factor, P1, 100),
                      !.loc.P_max_landing = MulDivR(a.reaction_factor, P1, 100)]
    /\ pc' = "oleo_volumes"
    /\ UNCHANGED <<caller, err, solverVars, pairVars, strokeVars, wrapVars, seal_db>>

\* lines 144-149: the volumes and the static stroke
OleoVolumes ==
    /\ pc = "oleo_volumes"
    /\ oleo.loc.P_2 # oleo.loc.P_0
    /\ LET l  == oleo.loc
           T  == oleo.args.shock_absorber_travel_m
           V0 == ExtendedVolume(l.A_piston_corrected, T, l.P_0, l.P_2)
           V1 == StaticVolume(V0, l.P_0, l.P_1)
       IN  oleo' = [oleo EXCEPT
                      !.loc.V_0 = V0,
                      !.loc.V_2 = V0 - SweptVolume(l.A_piston_corrected, T),
                      !.loc.V_1 = V1,
                      !.loc.x_static = StaticStroke(V0, V1, l.A_piston_corrected)]
    /\ pc' = "oleo_curve"
    /\ UNCHANGED <<caller, err, solverVars, pairVars, strokeVars, wrapVars, seal_db>>

\* lines 144-149 with P_2 = P_0.  The bore read from the table is a numpy
\* scalar and so is everything computed from it: the division by P_2 - P_0 = 0
\* warns and gives inf instead of raising, V_2 = inf - area*travel = inf,
\* V_1 = inf * P_0 / P_1 = inf and x_static = (inf - inf) / area = nan.
OleoVolumesZeroDivision ==
    /\ pc = "oleo_volumes"
    /\ oleo.loc.P_2 = oleo.loc.P_0
    /\ oleo' = [oleo EXCEPT !.loc.V_0 = inf, !.loc.V_2 = inf,
                            !.loc.V_1 = inf, !.loc.x_static = nan]
    /\ pc' = "oleo_curve"
    /\ UNCHANGED <<caller, err, solverVars, pairVars, strokeVars, wrapVars, seal_db>>

InitSizing ==
    /\ pc = "oleo_start"
    /\ caller = "none"
    /\ err = "none"
    /\ \E t \in 1..NumSealTables : seal_db = SealTables[t]
    /\ \E g \in 1..Len(OleoGearChoices), m \in 1..NumOleoMasses, b \in 1..NumBreakouts :
          oleo = [args |->
                    [ramp_mass_kg |-> OleoMassChoices[m].ramp,
                     landing_mass_kg |-> OleoMassChoices[m].landing,
                     load_fraction |-> OleoGearChoices[g].load_fraction,
                     reaction_factor |-> 110,
                     shock_absorber_travel_m |->
                         OleoGearChoices[g].shock_absorber_travel_m,
                     breakout_load_fraction |->
                         IF BreakoutChoices[b] = 0
                           THEN OleoGearChoices[g].breakout_load_fraction
                           ELSE BreakoutChoices[b],
                     static_pressure |-> 13000,
                     num_gear_legs |-> OleoGearChoices[g].num_gear_legs,
                     max_load_factor |-> OleoGearChoices[g].max_load_factor,
                     limit_stroke_m |-> OleoGearChoices[g].limit_stroke_m],
                  loc |-> OleoLocalsUnset]
    /\ SolverIdle /\ PairIdle /\ StrokeIdle /\ WrapIdle

\* lines 152-155: the spring curve, n_points samples of x, V and P.  With
\* V_0 = inf every volume is inf and every pressure P_0 * inf / inf = nan; a
\* sample volume of 0 would give the pressure inf (numpy warns, no exception).
OleoCurve ==
    /\ pc = "oleo_curve"
    /\ LET l  == oleo.loc
           xs == [k \in 1..n_points |->
                    Linspace(oleo.args.shock_absorber_travel_m * 10^5, n_points, k)]
           Vs == [k \in 1..n_points |->
                    IF l.V_0 = inf THEN inf
                    ELSE CurveVolume(l.V_0, l.A_piston_corrected, xs[k])]
           Ps == [k \in 1..n_points |->
                    IF l.V_0 = inf THEN nan
                    ELSE IF Vs[k] = 0 THEN inf
                    ELSE CurvePressure(l.P_0, l.V_0, Vs[k])]
       IN  oleo' = [oleo EXCEPT !.loc.x = xs, !.loc.V = Vs, !.loc.P = Ps]
    /\ pc' = "oleo_return"
    /\ UNCHANGED <<caller, err, solverVars, pairVars, strokeVars, wrapVars, seal_db>>

\* line 196: return P_0, P_1, P_2, x_static, d_corrected
OleoReturn ==
    /\ pc = "oleo_return"
    /\ ret' = <<oleo.loc.P_0, oleo.loc.P_1, oleo.loc.P_2, oleo.loc.x_static,
                oleo.loc.d_corrected>>
    /\ pc' = "oleo_done"
    /\ UNCHANGED <<caller, err, args, x_t, lambda_val, x_t_new, iter, pairVars,
                   strokeVars, wrapVars, oleoVars>>

NextSizing ==
    \/ OleoPiston \/ OleoSealFound \/ OleoSealMissing \/ OleoPressures
    \/ OleoVolumes \/ OleoVolumesZeroDivision \/ OleoCurve \/ OleoReturn

SpecSizing == InitSizing /\ [][NextSizing]_vars


\* the seal lookup has been passed
SealLookupDone ==
    pc \in {"oleo_pressures", "oleo_volumes", "oleo_curve", "oleo_return", "oleo_done"}

\* the piston diameter has been computed
PistonDone == pc # "oleo_start"

\* the table's bores strictly greater than the computed diameter (inches)
QualifyingBores ==
    { seal_db[i] : i \in { j \in DOMAIN seal_db : seal_db[j] > oleo.loc.d_piston_in } }

MinOf(S) == CHOOSE m \in S : \A x \in S : m <= x

Ascending(db) == \A i, j \in DOMAIN db : i < j => db[i] <= db[j]

\* C5 as stated: for every seal table the bore adopted is the least table
\* entry strictly greater than the computed diameter, whatever the row order.
C5_SelectsLeastBore ==
    SealLookupDone => oleo.loc.selected_B_in = MinOf(QualifyingBores)

\* C5 amended: the bore adopted is the first row, in table order, whose C is
\* strictly greater than the computed diameter in inches (an entry equal to
\* it is never selected); it is the least such entry when the table's rows
\* are in ascending order of C.
C5_SelectsFirstExceedingBore ==
    SealLookupDone =>
        /\ oleo.loc.selected_B_in > oleo.loc.d_piston_in
        /\ \E i \in DOMAIN seal_db :
              /\ seal_db[i] = oleo.loc.selected_B_in
              /\ \A j \in 1..(i - 1) : seal_db[j] <= oleo.loc.d_piston_in
        /\ Ascending(seal_db) => oleo.loc.selected_B_in = MinOf(QualifyingBores)
        /\ oleo.loc.d_corrected = InchToMetreBack(oleo.loc.selected_B_in)

\* an ascending table holding a bore equal to the computed diameter
C5_Witness ==
    /\ SealLookupDone /\ Ascending(seal_db)
    /\ \E i \in DOMAIN seal_db : seal_db[i] = oleo.loc.d_piston_in
    /\ oleo.loc.selected_B_in = MinOf(QualifyingBores)

\* C6: when no table entry is strictly greater than the computed diameter the
\* sizing ends in an explicit NoSealAvailable error, before any pressure or
\* volume is computed, and not in an unguarded out-of-bounds access.
C6_NoSealIsCheckedError ==
    (PistonDone /\ pc # "oleo_seal" /\ QualifyingBores = {}) =>
        /\ pc = "raised"
        /\ err = "NoSealAvailable"
        /\ oleo.loc.P_0 = 0 /\ oleo.loc.V_0 = 0

\* What the code does in that case: it stops in IndexError.
C6_Observed ==
    (PistonDone /\ pc # "oleo_seal" /\ QualifyingBores = {}) =>
        /\ pc = "raised"
        /\ err = "IndexError"
        /\ oleo.loc.P_0 = 0 /\ oleo.loc.V_0 = 0

\* 0 < breakout_load_fraction * landing_mass < ramp_mass and max_load_factor > 1
PhysicallyOrdered(a) ==
    /\ 0 < a.breakout_load_fraction * a.landing_mass_kg
    /\ a.breakout_load_fraction * a.landing_mass_kg < 100 * a.ramp_mass_kg
    /\ a.max_load_factor > 100

\* C7: (a) whenever P2 > P0 > 0, V0 = area*travel*P2/(P2-P0) and
\* V2 = V0 - area*travel satisfy V0 > V2 > 0 (and, V0 being that quotient,
\* P0*V0 = P2*V2 up to rounding); (b) for physically ordered
\* inputs P0 < P1 < P2 and the static stroke lies strictly between 0 and the
\* travel.
C7_VolumesAndPressuresOrdered ==
    /\ pc \in {"oleo_curve", "oleo_return", "oleo_done"} =>
          /\ oleo.loc.A_piston_corrected > 0
          /\ (oleo.loc.P_2 > oleo.loc.P_0 /\ oleo.loc.P_0 > 0) =>
                /\ oleo.loc.V_0 > oleo.loc.V_2
                /\ oleo.loc.V_2 > 0
                /\ oleo.loc.V_2 = oleo.loc.V_0
                      - SweptVolume(oleo.loc.A_piston_corrected,
                                    oleo.args.shock_absorber_travel_m)
                /\ Abs(MulDivR(oleo.loc.V_0, oleo.loc.P_0, oleo.loc.P_2)
                       - oleo.loc.V_2) <= 2
          /\ PhysicallyOrdered(oleo.args) =>
                /\ oleo.loc.x_static > 0
                /\ oleo.loc.x_static < 1000 * oleo.args.shock_absorber_travel_m
    /\ (pc \in {"oleo_volumes", "oleo_curve", "oleo_return", "oleo_done"}
          /\ PhysicallyOrdered(oleo.args)) =>
          /\ oleo.loc.P_0 > 0
          /\ oleo.loc.P_0 < oleo.loc.P_1
          /\ oleo.loc.P_1 < oleo.loc.P_2

C7_Witness ==
    /\ pc = "oleo_done" /\ PhysicallyOrdered(oleo.args)
    /\ oleo.args.ramp_mass_kg # oleo.args.landing_mass_kg
    /\ oleo.loc.V_0 > oleo.loc.V_2 /\ oleo.loc.V_2 > 0

\* (a) applies to inputs that are not physically ordered as well.
C7_UnorderedReached ==
    /\ pc = "oleo_done" /\ ~PhysicallyOrdered(oleo.args)
    /\ oleo.loc.P_2 > oleo.loc.P_0


\* a length in 1e-7 m as 1e-6 in, and back, at exactly 0.0254 m per inch
ExactMetreToInch(d) == MulDivR(d, 1000, 254)
ExactInchToMetre(c) == MulDivR(c, 254, 1000)

\* C11 as stated: every conversion uses exactly 1 inch = 0.0254 m and
\* 1 lbf = 4.44822 N: the tyre radii and the rated load on the analysis and
\* stroke paths, and in the sizing the piston diameter in inches is the
\* diameter in metres divided by 0.0254, the adopted bore in metres is the
\* bore in inches times 0.0254, and metres to inches and back is the identity.
C11_ConversionsExact ==
    /\ \A t \in DOMAIN Tyres :
          /\ InchToMetre(TyreRMaxIn(Tyres[t])) = TyreRMaxIn(Tyres[t]) * 254
          /\ InchToMetre(TyreRMinIn(Tyres[t])) = TyreRMinIn(Tyres[t]) * 254
          /\ TyreLoadRating(Tyres[t])
               = MulDivR(Tyres[t].rated_load_lbs, 444822, 1000)
    /\ PistonDone =>
          /\ oleo.loc.d_piston_in = ExactMetreToInch(oleo.loc.d_piston)
          /\ InchToMetreBack(oleo.loc.d_piston_in) = oleo.loc.d_piston
    /\ SealLookupDone =>
          oleo.loc.d_corrected = ExactInchToMetre(oleo.loc.selected_B_in)

\* What the code does: the tyre radii and the rated load are converted at
\* 0.0254 and 4.44822; the sizing multiplies and divides by 39.3701, which
\* is above 1/0.0254, so the diameter in inches comes out too large and the
\* bore in metres too small, while metres to inches and back is the identity.
C11_Observed ==
    /\ \A t \in DOMAIN Tyres :
          /\ InchToMetre(TyreRMaxIn(Tyres[t])) = TyreRMaxIn(Tyres[t]) * 254
          /\ TyreLoadRating(Tyres[t])
               = MulDivR(Tyres[t].rated_load_lbs, 444822, 1000)
    /\ PistonDone =>
          /\ oleo.loc.d_piston_in = MetreToInch(oleo.loc.d_piston)
          /\ oleo.loc.d_piston_in > ExactMetreToInch(oleo.loc.d_piston)
          /\ InchToMetreBack(oleo.loc.d_piston_in) = oleo.loc.d_piston
    /\ SealLookupDone =>
          /\ oleo.loc.d_corrected = InchToMetreBack(oleo.loc.selected_B_in)
          /\ oleo.loc.d_corrected < ExactInchToMetre(oleo.loc.selected_B_in)

\* A bore that exceeds the piston diameter at 0.0254 m per inch stands in the
\* table before the adopted one and was passed over.
C11_ExceedingBoreSkipped ==
    /\ SealLookupDone
    /\ \E i, j \in DOMAIN seal_db :
          /\ i < j
          /\ seal_db[j] = oleo.loc.selected_B_in
          /\ seal_db[i] > ExactMetreToInch(oleo.loc.d_piston)
          /\ seal_db[i] <= oleo.loc.d_piston_in
          /\ \A k \in 1..(j - 1) : seal_db[k] <= oleo.loc.d_piston_in


\* the spring curve has been sampled
CurveSampled == pc \in {"oleo_return", "oleo_done"}

\* the curve's pressure at the stroke x (1e-8 m)
CurveAt(x) ==
    CurvePressure(oleo.loc.P_0, oleo.loc.V_0,
                  CurveVolume(oleo.loc.V_0, oleo.loc.A_piston_corrected, x))

\* C12: with P2 > P0 > 0 the curve P(x) = P0*V0/(V0 - area*x), sampled at 100
\* strokes from 0 to the travel with both end points included, starts at the
\* breakout pressure P0, ends at P0*V0/V2, which is the maximum pressure P2
\* (up to the rounding of V2), is strictly increasing from each sample to the
\* next, never divides by zero (V0 - area*x >= V2 > 0 at every sample), and
\* takes the static pressure P1 at x = x_static (up to the rounding of
\* x_static and V1).
C12_CurveFromBreakoutToMaximum ==
    (CurveSampled /\ oleo.loc.P_2 > oleo.loc.P_0 /\ oleo.loc.P_0 > 0) =>
        LET l == oleo.loc
            n == n_points
        IN  /\ Len(l.x) = n /\ Len(l.V) = n /\ Len(l.P) = n
            /\ n = 100
            /\ l.x[1] = 0
            /\ l.x[n] = oleo.args.shock_absorber_travel_m * 10^5
            /\ \A k \in 1..(n - 1) : l.x[k] < l.x[k + 1]
            /\ l.P[1] = l.P_0
            /\ l.V[n] = l.V_2
            /\ l.P[n] = CurvePressure(l.P_0, l.V_0, l.V_2)
            /\ Abs(l.P[n] - l.P_2) <= MulDivR(l.P_2, 2, l.V_2) + 1
            /\ \A k \in 1..(n - 1) : l.P[k] < l.P[k + 1]
            /\ l.V_2 > 0
            /\ \A k \in 1..n : l.V[k] >= l.V_2 /\ l.P[k] # inf /\ l.P[k] # nan
            /\ Abs(CurveAt(l.x_static * 100) - l.P_1)
                 <= MulDivR(l.P_1, l.A_piston_corrected \div 10^5 + 2, l.V_1) + 1

\* a returned sizing of physically ordered inputs whose curve rises from P0
C12_Witness ==
    /\ pc = "oleo_done" /\ PhysicallyOrdered(oleo.args)
    /\ oleo.loc.P_2 > oleo.loc.P_0 /\ oleo.loc.P_0 > 0
    /\ Len(oleo.loc.P) = n_points
    /\ oleo.loc.P[1] = oleo.loc.P_0
    /\ oleo.loc.P[n_points] > oleo.loc.P[n_points - 1]
    /\ oleo.loc.x_static > 0

\* the curve of a breakout pressure above the static pressure: x_static < 0
C12_BreakoutAboveStaticReached ==
    /\ CurveSampled /\ oleo.loc.P_2 > oleo.loc.P_0 /\ oleo.loc.P_0 > oleo.loc.P_1
    /\ oleo.loc.x_static < 0 /\ oleo.loc.x_static # nan

\* outside the claim's case, P2 = P0: no exception, every sample is nan
C12_EqualPressuresReached ==
    /\ pc = "oleo_done" /\ err = "none" /\ oleo.loc.P_2 = oleo.loc.P_0
    /\ oleo.loc.V_0 = inf /\ oleo.loc.x_static = nan
    /\ \A k \in 1..n_points : oleo.loc.P[k] = nan

=============================================================================
